---- MODULE Spec2Model ----
(***************************************************************************)
(* Model of the two batch scripts of py-utility-progs:                     *)
(*   cwebp-converter/main.py     convert_to_webp / convert_images_to_webp  *)
(*   img-downloader/downloader.py  download_image / download_images        *)
(* Both run a per-item worker over a list with                             *)
(* ThreadPoolExecutor(max_workers=max_threads).map(...), count the results *)
(* in the calling thread and append per-item failures to an error log.     *)
(*                                                                         *)
(* An item is identified by its position 1..K in the input list.           *)
(***************************************************************************)
EXTENDS Integers, Sequences, FiniteSets, TLC

\* ---------------------------------------------------------------- bounds
MaxItems == 4
MaxThreads == 2
\* Largest input of the runs checked under fairness.
LiveMaxItems == 3
\* Longest file name before its extension, longest URL path.
MaxStemLen == 2
MaxPathLen == 2

\* ------------------------------------------------------------- constants
Scripts == {"convert", "download"}

\* Positions of a worker invocation between its start and its return.
RunningStates == {"try", "makedirs", "cwebp", "save", "log"}

\* Final states of a worker invocation (the future is done).
FinalStates == {"succeeded", "failed", "raised"}

ItemStates == {"unsubmitted", "pending", "cancelled"} \cup RunningStates \cup FinalStates

\* Exceptions a worker invocation can end with.
Exceptions == {"CalledProcessError", "RequestException", "OSError", "FileExistsError"}

VARIABLES
  script,          \* which of the two programs runs
  input_ok,        \* the image folder / URL file can be read
  n_items,         \* K: number of image paths / URLs of the input
  names,           \* names[j]: the image path / URL of item j, as characters
  max_threads,     \* the -t argument
  mainpc,          \* position of the calling thread
  total_images,    \* total_images
  completed,       \* converted_images / downloaded_images
  idx,             \* loop index of the calling thread (submit, iterate, cancel)
  st,              \* st[j]: state of the worker invocation for item j
  calls,           \* calls[j]: how often the worker function was called on item j
  exc,             \* exc[j]: exception raised inside the invocation for item j
  folder,          \* the output folder exists
  error_log,       \* the error log file: sequence of items, one per line
  reports,         \* the per-item progress lines printed so far
  summary,         \* the final summary line <<completed, total>>, or <<>>
  num_threads,     \* len(executor._threads)
  idle_semaphore,  \* executor._idle_semaphore
  escaped          \* exception that left the batch run, or "none"

vars == <<script, names, calls, input_ok, n_items, max_threads, mainpc, total_images,
          completed, idx, st, exc, folder, error_log, reports, summary,
          num_threads, idle_semaphore, escaped>>

Items == 1..n_items

\* ------------------------------------------------------------- helpers
\* converted_images = 0 / downloaded_images = 0
InitialCountOffByOne == 0 + 1
InitialCount == 0

\* ThreadPoolExecutor(max_workers=n) raises ValueError unless n > 0.
ValidMaxWorkersAny(n) == TRUE
ValidMaxWorkers(n) == n > 0

\* _adjust_thread_count: a new thread is started only below max_workers.
CanSpawnAlways(nt, mw) == TRUE
CanSpawnInverted(nt, mw) == nt > mw
CanSpawn(nt, mw) == nt < mw

\* open(error_log, "a") ... write(line): the line goes after the existing ones.
TruncatingWrite(l, item) == <<item>>
RewritingWrite(l, item) == <<item>> \o l
AppendLine(l, item) == Append(l, item)

\* Worker invocations that have started and not yet returned.
Running(s) == {j \in DOMAIN s : s[j] \in RunningStates}

\* executor.__exit__ -> shutdown(wait=True): every pool thread is joined.
NoJoin(s) == TRUE
Joined(s) == Running(s) = {} /\ \A j \in DOMAIN s : s[j] # "pending"

\* The work queue is FIFO: the next work item a thread takes.
Pending(s) == {j \in DOMAIN s : s[j] = "pending"}
QueueHead(s) == CHOOSE j \in Pending(s) : \A k \in Pending(s) : j <= k

\* Number of lines of the log that name item j.
RECURSIVE CountIn(_, _)
CountIn(l, j) ==
  IF l = <<>> THEN 0
  ELSE (IF Head(l) = j THEN 1 ELSE 0) + CountIn(Tail(l), j)

\* ------------------------------------------------- paths and URLs
\* A path or URL is a sequence of characters; ".png"/".jpg" extensions are
\* written as a dot and one symbol, "http://" as the symbol "s".
SeqsUpTo(S, n) == UNION {[1..k -> S] : k \in 0..n}

\* Position of the last occurrence of c in p, 0 when there is none.
LastIndex(p, c) ==
  IF \E k \in 1..Len(p) : p[k] = c
    THEN CHOOSE k \in 1..Len(p) : p[k] = c /\ \A m \in (k+1)..Len(p) : p[m] # c
    ELSE 0

\* Position of the first occurrence of c in p, Len(p) + 1 when there is none.
FirstIndex(p, c) ==
  IF \E k \in 1..Len(p) : p[k] = c
    THEN CHOOSE k \in 1..Len(p) : p[k] = c /\ \A m \in 1..(k-1) : p[m] # c
    ELSE Len(p) + 1

\* os.path.basename: what follows the last separator.
Basename(p) == SubSeq(p, LastIndex(p, "/") + 1, Len(p))

\* os.path.splitext(...)[0]: the name up to its last dot; leading dots do not
\* start an extension.
SplitextRoot(f) ==
  IF \E k \in 1..(LastIndex(f, ".") - 1) : f[k] # "."
    THEN SubSeq(f, 1, LastIndex(f, ".") - 1)
    ELSE f

\* os.path.join(folder, name)
Join(d, f) == d \o <<"/">> \o f

\* main.py 25-26: output_path of an image path (output folder "o").
OutputPathKeepingExt(p) == Join(<<"o">>, Basename(p) \o <<".", "webp">>)
OutputPath(p) == Join(<<"o">>, SplitextRoot(Basename(p)) \o <<".", "webp">>)

\* urlparse(url).path: after scheme and host, up to the query.
UrlPath(u) == SubSeq(u, 3, FirstIndex(u, "?") - 1)

\* downloader.py 21-22, 29: filepath of a URL (folder "o").
FilePath(u) == Join(<<"o">>, Basename(UrlPath(u)))

\* main.py 56-61: the files of the image folder "d" that pass the extension
\* filter.
ImagePaths ==
  {<<"d", "/">> \o stem \o <<".", e>> :
     stem \in SeqsUpTo({"a", "."}, MaxStemLen), e \in {"png", "jpg"}}

\* downloader.py 106-107: the lines of the URL file.
Urls ==
  {<<"s", h>> \o path \o q :
     h \in {"h", "g"},
     path \in {<<>>} \cup {<<"/">> \o r : r \in SeqsUpTo({"/", "x"}, MaxPathLen - 1)},
     q \in {<<>>, <<"?", "q">>}}

\* The destination the worker writes for item value n.
Dest(sc, n) == IF sc = "convert" THEN OutputPath(n) ELSE FilePath(n)

\* The part of item value n that names its destination.
DestKey(sc, n) ==
  IF sc = "convert" THEN SplitextRoot(Basename(n)) ELSE Basename(UrlPath(n))

\* The item values of a run whose names do not matter: j letters.
DefaultName(sc, j) ==
  IF sc = "convert"
    THEN <<"d", "/">> \o [k \in 1..j |-> "a"] \o <<".", "png">>
    ELSE <<"s", "h", "/">> \o [k \in 1..j |-> "x"]

PoolAlive == mainpc \in {"submit", "iter", "cancel", "shutdown"}
Ended == mainpc \in {"done", "raised"}

\* ---------------------------------------------------------------- Init
\* The state before the first statement, for given inputs.
Start ==
  /\ mainpc = "start"
  /\ total_images = 0
  /\ completed = 0
  /\ idx = 0
  /\ st = [j \in 1..n_items |-> "unsubmitted"]
  /\ exc = [j \in 1..n_items |-> "none"]
  /\ calls = [j \in 1..n_items |-> 0]
  /\ error_log = <<>>
  /\ reports = <<>>
  /\ summary = <<>>
  /\ num_threads = 0
  /\ idle_semaphore = 0
  /\ escaped = "none"

Init ==
  /\ script \in Scripts
  /\ input_ok \in BOOLEAN
  /\ n_items \in 0..MaxItems
  /\ max_threads \in {-1, 0} \cup 1..MaxThreads
  /\ folder \in BOOLEAN
  /\ names = [j \in 1..n_items |-> DefaultName(script, j)]
  /\ Start

\* Runs over five items with a valid thread count: the batch in which the
\* third item faults.
InitFault ==
  /\ script \in Scripts
  /\ input_ok = TRUE
  /\ n_items = 5
  /\ max_threads \in 1..MaxThreads
  /\ folder \in BOOLEAN
  /\ names = [j \in 1..n_items |-> DefaultName(script, j)]
  /\ Start

\* Runs over two items with every pair of names: the files of a folder are
\* distinct, the lines of a URL file need not be.
InitNames ==
  /\ script \in Scripts
  /\ input_ok = TRUE
  /\ n_items = 2
  /\ max_threads = 2
  /\ folder \in BOOLEAN
  /\ names \in IF script = "convert"
                 THEN {n \in [1..2 -> ImagePaths] : n[1] # n[2]}
                 ELSE [1..2 -> Urls]
  /\ Start

\* ------------------------------------------------- the calling thread
\* main.py 56-64: list the folder, total_images, converted_images = 0.
\* downloader.py 105-109, 56-61: read the URL file, create the folder,
\* total_images, downloaded_images = 0.
Startup ==
  /\ mainpc = "start"
  /\ IF ~input_ok
       THEN /\ mainpc' = "raised"
            /\ escaped' = "OSError"
            /\ UNCHANGED <<folder, total_images, completed>>
       ELSE /\ mainpc' = "ctor"
            /\ folder' = IF script = "download" THEN TRUE ELSE folder
            /\ total_images' = n_items
            /\ completed' = InitialCount
            /\ UNCHANGED escaped
  /\ UNCHANGED <<script, names, calls, input_ok, n_items, max_threads, idx, st,
                 exc, error_log, reports, summary, num_threads, idle_semaphore>>

\* with ThreadPoolExecutor(max_workers=max_threads) as executor
Construct ==
  /\ mainpc = "ctor"
  /\ IF ValidMaxWorkers(max_threads)
       THEN /\ mainpc' = "submit"
            /\ idx' = 1
            /\ UNCHANGED escaped
       ELSE /\ mainpc' = "raised"
            /\ escaped' = "ValueError"
            /\ UNCHANGED idx
  /\ UNCHANGED <<script, names, calls, input_ok, n_items, max_threads, total_images,
                 completed, st, exc, folder, error_log, reports, summary,
                 num_threads, idle_semaphore>>

\* executor.map: fs = [self.submit(fn, *args) for args in zip(*iterables)]
\* submit puts the work item on the queue and adjusts the thread count.
Submit ==
  /\ mainpc = "submit"
  /\ idx <= n_items
  /\ st' = [st EXCEPT ![idx] = "pending"]
  /\ idx' = idx + 1
  /\ IF idle_semaphore > 0
       THEN /\ idle_semaphore' = idle_semaphore - 1
            /\ UNCHANGED num_threads
       ELSE /\ num_threads' = IF CanSpawn(num_threads, max_threads)
                                THEN num_threads + 1 ELSE num_threads
            /\ UNCHANGED idle_semaphore
  /\ UNCHANGED <<script, names, calls, input_ok, n_items, max_threads, mainpc, total_images,
                 completed, exc, folder, error_log, reports, summary, escaped>>

\* All futures are submitted: the for loop starts to consume the results.
SubmitDone ==
  /\ mainpc = "submit"
  /\ idx > n_items
  /\ mainpc' = "iter"
  /\ idx' = 1
  /\ UNCHANGED <<script, names, calls, input_ok, n_items, max_threads, total_images,
                 completed, st, exc, folder, error_log, reports, summary,
                 num_threads, idle_semaphore, escaped>>

\* The loop over the results in completion order (as_completed) instead
\* of input order.
NextResultAsCompleted ==
  /\ mainpc = "iter"
  /\ idx <= n_items
  /\ Cardinality({j \in Items : st[j] \in {"succeeded", "failed"}}) > completed
  /\ completed' = completed + 1
  /\ reports' = Append(reports, completed + 1)
  /\ idx' = idx + 1
  /\ UNCHANGED <<script, names, calls, input_ok, n_items, max_threads, mainpc,
                 total_images, st, exc, folder, error_log, summary, num_threads,
                 idle_semaphore, escaped>>

\* for _ in executor.map(...): the result of item idx, in input order;
\* the loop body counts it and prints the progress line.
NextResult ==
  /\ mainpc = "iter"
  /\ idx <= n_items
  /\ st[idx] \in {"succeeded", "failed"}
  /\ completed' = completed + 1
  /\ reports' = Append(reports, completed + 1)
  /\ idx' = idx + 1
  /\ UNCHANGED <<script, names, calls, input_ok, n_items, max_threads, mainpc, total_images,
                 st, exc, folder, error_log, summary, num_threads,
                 idle_semaphore, escaped>>

\* future.result() re-raises the exception of the worker invocation in the
\* calling thread; the generator's finally clause then cancels the rest.
ResultRaises ==
  /\ mainpc = "iter"
  /\ idx <= n_items
  /\ st[idx] = "raised"
  /\ escaped' = exc[idx]
  /\ mainpc' = "cancel"
  /\ idx' = n_items
  /\ UNCHANGED <<script, names, calls, input_ok, n_items, max_threads, total_images,
                 completed, st, exc, folder, error_log, reports, summary,
                 num_threads, idle_semaphore>>

\* finally: for future in fs: future.cancel()  (fs is reversed: last first).
\* cancel() succeeds only on a future that has not started.
CancelOne ==
  /\ mainpc = "cancel"
  /\ idx > completed + 1
  /\ st' = [st EXCEPT ![idx] = IF st[idx] = "pending" THEN "cancelled" ELSE st[idx]]
  /\ idx' = idx - 1
  /\ UNCHANGED <<script, names, calls, input_ok, n_items, max_threads, mainpc, total_images,
                 completed, exc, folder, error_log, reports, summary,
                 num_threads, idle_semaphore, escaped>>

CancelDone ==
  /\ mainpc = "cancel"
  /\ idx <= completed + 1
  /\ mainpc' = "shutdown"
  /\ UNCHANGED <<script, names, calls, input_ok, n_items, max_threads, total_images,
                 completed, idx, st, exc, folder, error_log, reports, summary,
                 num_threads, idle_semaphore, escaped>>

\* The results are exhausted: leave the for loop.
IterDone ==
  /\ mainpc = "iter"
  /\ idx > n_items
  /\ mainpc' = "shutdown"
  /\ UNCHANGED <<script, names, calls, input_ok, n_items, max_threads, total_images,
                 completed, idx, st, exc, folder, error_log, reports, summary,
                 num_threads, idle_semaphore, escaped>>

\* End of the with block: shutdown(wait=True) joins the pool threads; an
\* exception raised in the block then leaves the function.
Shutdown ==
  /\ mainpc = "shutdown"
  /\ Joined(st)
  /\ mainpc' = IF escaped = "none" THEN "summary" ELSE "raised"
  /\ UNCHANGED <<script, names, calls, input_ok, n_items, max_threads, total_images,
                 completed, idx, st, exc, folder, error_log, reports, summary,
                 num_threads, idle_semaphore, escaped>>

\* print(f"Converted {converted_images} of {total_images} images. ...")
Summary ==
  /\ mainpc = "summary"
  /\ summary' = <<completed, total_images>>
  /\ mainpc' = "done"
  /\ UNCHANGED <<script, names, calls, input_ok, n_items, max_threads, total_images,
                 completed, idx, st, exc, folder, error_log, reports,
                 num_threads, idle_semaphore, escaped>>

\* ---------------------------------------------------- the pool threads
\* A pool thread takes the next work item of the queue and runs it.
StartWork ==
  /\ PoolAlive
  /\ Pending(st) # {}
  /\ Cardinality(Running(st)) < num_threads
  /\ st' = [st EXCEPT ![QueueHead(st)] = "try"]
  /\ calls' = [calls EXCEPT ![QueueHead(st)] = calls[QueueHead(st)] + 1]
  /\ UNCHANGED <<script, names, input_ok, n_items, max_threads, mainpc, total_images,
                 completed, idx, exc, folder, error_log, reports, summary,
                 num_threads, idle_semaphore, escaped>>

\* main.py 21: if not os.path.exists(output_folder)
CheckFolder(j) ==
  /\ script = "convert"
  /\ st[j] = "try"
  /\ st' = [st EXCEPT ![j] = IF folder THEN "cwebp" ELSE "makedirs"]
  /\ UNCHANGED <<script, names, calls, input_ok, n_items, max_threads, mainpc, total_images,
                 completed, idx, exc, folder, error_log, reports, summary,
                 num_threads, idle_semaphore, escaped>>

\* main.py 22: os.makedirs(output_folder) raises FileExistsError when the
\* folder is there by now; the except clause does not catch it.
MakeDirs(j) ==
  /\ st[j] = "makedirs"
  /\ IF folder
       THEN /\ st' = [st EXCEPT ![j] = "raised"]
            /\ exc' = [exc EXCEPT ![j] = "FileExistsError"]
            /\ idle_semaphore' = idle_semaphore + 1
            /\ UNCHANGED folder
       ELSE /\ folder' = TRUE
            /\ st' = [st EXCEPT ![j] = "cwebp"]
            /\ UNCHANGED <<exc, idle_semaphore>>
  /\ UNCHANGED <<script, names, calls, input_ok, n_items, max_threads, mainpc, total_images,
                 completed, idx, error_log, reports, summary, num_threads,
                 escaped>>

\* main.py 29-34: subprocess.run(["cwebp", ...], check=True): zero exit,
\* CalledProcessError on a non-zero exit, OSError when cwebp cannot be run.
RunCwebp(j) ==
  /\ st[j] = "cwebp"
  /\ \E r \in {"ok", "CalledProcessError", "OSError"} :
       /\ st' = [st EXCEPT ![j] = CASE r = "ok" -> "succeeded"
                                    [] r = "CalledProcessError" -> "log"
                                    [] OTHER -> "raised"]
       /\ exc' = [exc EXCEPT ![j] = IF r = "ok" THEN "none" ELSE r]
       /\ idle_semaphore' = IF r = "CalledProcessError"
                              THEN idle_semaphore ELSE idle_semaphore + 1
  /\ UNCHANGED <<script, names, calls, input_ok, n_items, max_threads, mainpc, total_images,
                 completed, idx, folder, error_log, reports, summary,
                 num_threads, escaped>>

\* downloader.py 21-26: requests.get and raise_for_status.
HttpGet(j) ==
  /\ script = "download"
  /\ st[j] = "try"
  /\ \E r \in {"ok", "RequestException"} :
       /\ st' = [st EXCEPT ![j] = IF r = "ok" THEN "save" ELSE "log"]
       /\ exc' = [exc EXCEPT ![j] = IF r = "ok" THEN "none" ELSE r]
  /\ UNCHANGED <<script, names, calls, input_ok, n_items, max_threads, mainpc, total_images,
                 completed, idx, folder, error_log, reports, summary,
                 num_threads, idle_semaphore, escaped>>

\* downloader.py 29-32: open the destination and write the streamed body:
\* OSError from open/write is not caught, a RequestException while
\* streaming is.
SaveFile(j) ==
  /\ st[j] = "save"
  /\ \E r \in {"ok", "RequestException", "OSError"} :
       /\ st' = [st EXCEPT ![j] = CASE r = "ok" -> "succeeded"
                                    [] r = "RequestException" -> "log"
                                    [] OTHER -> "raised"]
       /\ exc' = [exc EXCEPT ![j] = IF r = "ok" THEN "none" ELSE r]
       /\ idle_semaphore' = IF r = "RequestException"
                              THEN idle_semaphore ELSE idle_semaphore + 1
  /\ UNCHANGED <<script, names, calls, input_ok, n_items, max_threads, mainpc, total_images,
                 completed, idx, folder, error_log, reports, summary,
                 num_threads, escaped>>

\* The except clause with the count kept by the worker itself.
LogErrorCounting(j) ==
  /\ st[j] = "log"
  /\ error_log' = AppendLine(error_log, j)
  /\ st' = [st EXCEPT ![j] = "failed"]
  /\ idle_semaphore' = idle_semaphore + 1
  /\ completed' = completed + 1
  /\ UNCHANGED <<script, names, calls, input_ok, n_items, max_threads, mainpc,
                 total_images, idx, exc, folder, reports, summary, num_threads,
                 escaped>>

\* The except clause with the line kept back instead of written.
LogErrorDeferred(j) ==
  /\ st[j] = "log"
  /\ st' = [st EXCEPT ![j] = "failed"]
  /\ idle_semaphore' = idle_semaphore + 1
  /\ UNCHANGED <<script, names, calls, input_ok, n_items, max_threads, mainpc,
                 total_images, completed, idx, exc, folder, error_log, reports,
                 summary, num_threads, escaped>>

\* except clause: with open(error_log, "a") as log_file: log_file.write(...)
\* The line reaches the file in one O_APPEND write when the file is closed;
\* the worker then returns None.
LogError(j) ==
  /\ st[j] = "log"
  /\ error_log' = AppendLine(error_log, j)
  /\ st' = [st EXCEPT ![j] = "failed"]
  /\ idle_semaphore' = idle_semaphore + 1
  /\ UNCHANGED <<script, names, calls, input_ok, n_items, max_threads, mainpc, total_images,
                 completed, idx, exc, folder, reports, summary, num_threads,
                 escaped>>

Worker(j) ==
  \/ CheckFolder(j)
  \/ MakeDirs(j)
  \/ RunCwebp(j)
  \/ HttpGet(j)
  \/ SaveFile(j)
  \/ LogError(j)

Next ==
  \/ Startup
  \/ Construct
  \/ Submit
  \/ SubmitDone
  \/ NextResult
  \/ ResultRaises
  \/ CancelOne
  \/ CancelDone
  \/ IterDone
  \/ Shutdown
  \/ Summary
  \/ StartWork
  \/ \E j \in Items : Worker(j)

Spec == Init /\ [][Next]_vars

\* The steps of the calling thread.
MainThread ==
  \/ Startup
  \/ Construct
  \/ Submit
  \/ SubmitDone
  \/ NextResult
  \/ ResultRaises
  \/ CancelOne
  \/ CancelDone
  \/ IterDone
  \/ Shutdown
  \/ Summary

\* The runs in which the calling thread and the pool threads are scheduled
\* fairly and every started worker invocation goes on to return: the worker
\* has no loop and no lock, the operating system schedules every thread.
InitLive == Init /\ n_items <= LiveMaxItems

Fairness ==
  /\ WF_vars(MainThread)
  /\ WF_vars(StartWork)
  /\ WF_vars(\E j \in Items : Worker(j))

SpecFault == InitFault /\ [][Next]_vars

SpecNames == InitNames /\ [][Next]_vars

SpecLive == InitLive /\ [][Next]_vars /\ Fairness

\* ------------------------------------------------------------ claims
Finished(s) == {j \in DOMAIN s : s[j] \in FinalStates}
ValidRun == input_ok /\ max_threads >= 1

\* C1: for every K, every N >= 1 and every mix of outcomes (success, item
\* failure, unexpected fault) completed never exceeds total and equals K when
\* the batch run ends.
C1_CompletedReachesTotal ==
  ValidRun =>
    /\ (mainpc # "start" => completed <= total_images)
    /\ (Ended => completed = n_items)

\* C2: with 5 items and an unexpected fault on item 3, items 1, 2, 4 and 5
\* are still run to completion for every N >= 1, the fault does not escape
\* the run and item 3 is recorded as a failure.
C2_FaultIsolated ==
  ( /\ ValidRun
    /\ n_items = 5
    /\ Ended
    /\ st[3] = "raised"
    /\ \A j \in Items \ {3} : st[j] # "raised" )
  => /\ escaped = "none"
     /\ \A j \in Items \ {3} : st[j] \in {"succeeded", "failed"}
     /\ CountIn(error_log, 3) = 1

\* C3: in every reachable state the number of worker invocations that have
\* started and not yet returned is at most the concurrency N, also for K > N.
C3_BoundedConcurrency ==
  Cardinality(Running(st)) <= (IF max_threads >= 1 THEN max_threads ELSE 0)

C3_Witness ==
  /\ max_threads >= 2
  /\ n_items > max_threads
  /\ Cardinality(Running(st)) = max_threads
  /\ Pending(st) # {}

\* C4: when the run ends the failure log holds exactly one entry for every
\* item whose processing did not succeed, whatever the cause (tool non-zero
\* exit, HTTP error, filesystem write error, unexpected fault).
C4_EveryFailureLogged ==
  Ended =>
    \A j \in Items :
      st[j] \in {"failed", "raised"} => CountIn(error_log, j) = 1

\* C5: when the worker fails for every one of the K items (tool non-zero exit
\* or HTTP error) the failure log ends with exactly K entries, one per item,
\* under every interleaving of the workers' appends.
C5_AllFailuresLogged ==
  (Ended /\ \A j \in Items : st[j] = "failed")
  => /\ Len(error_log) = n_items
     /\ \A j \in Items : CountIn(error_log, j) = 1

C5_Witness ==
  /\ mainpc = "done"
  /\ n_items >= 3
  /\ \A j \in Items : st[j] = "failed"
  /\ Len(error_log) = n_items
  /\ error_log[1] # 1

\* C6: with the output folder absent and two or more conversion workers
\* running, every interleaving of their exists-check and create steps ends
\* with the folder present and no worker failing on the directory creation.
C6_MakedirsSafe ==
  script = "convert" =>
    /\ \A j \in Items : exc[j] # "FileExistsError"
    /\ (Finished(st) # {} => folder)

\* C7: every progress report is one more than the previous one, the count
\* advances by one per finished item whatever its outcome, and the final
\* report shows completed equal to total.
C7_ProgressReachesTotal ==
  /\ \A k \in 1..Len(reports) : reports[k] = k
  /\ (ValidRun /\ Ended) =>
       /\ Len(reports) = Cardinality(Finished(st))
       /\ (n_items > 0 =>
             /\ reports # <<>>
             /\ reports[Len(reports)] = total_images)

\* C8: when the run has ended, normally or by an exception, no worker
\* invocation is still pending or running; when it ended normally every item
\* has its outcome and its progress report.
C8_ReturnsAfterAllWorkers ==
  Ended =>
    /\ \A j \in Items : st[j] \notin RunningStates \cup {"pending"}
    /\ (mainpc = "done" =>
          /\ \A j \in Items : st[j] \in {"succeeded", "failed"}
          /\ Len(reports) = n_items)

C8_Witness ==
  /\ mainpc = "raised"
  /\ \E i, j, k \in Items :
       /\ i < j /\ j < k
       /\ st[i] = "raised"
       /\ escaped = exc[i]
       /\ st[j] \in {"succeeded", "failed"}
       /\ st[k] = "cancelled"

\* C9: a run with concurrency 0 or negative fails with a configuration error
\* before any worker is invoked: nothing is submitted, converted, downloaded
\* or reported.
C9_InvalidThreadsFailFast ==
  max_threads <= 0 =>
    /\ mainpc \in {"start", "ctor", "raised"}
    /\ (mainpc = "raised" /\ input_ok => escaped = "ValueError")
    /\ \A j \in Items : st[j] = "unsubmitted"
    /\ num_threads = 0
    /\ completed = 0
    /\ reports = <<>>
    /\ error_log = <<>>

C9_Witness ==
  /\ max_threads <= 0
  /\ n_items >= 1
  /\ mainpc = "raised"
  /\ escaped = "ValueError"

\* C10: a run over an empty input ends with total = 0 and completed = 0,
\* without a worker invocation, a per-item progress report or a log entry.
C10_EmptyInput ==
  n_items = 0 =>
    /\ total_images = 0
    /\ completed = 0
    /\ num_threads = 0
    /\ reports = <<>>
    /\ error_log = <<>>
    /\ (mainpc = "done" => summary = <<0, 0>>)

C10_Witness ==
  /\ n_items = 0
  /\ max_threads >= 1
  /\ mainpc = "done"

\* C11: each item is handed to the worker exactly once: none is invoked
\* twice, none is left without an invocation, and each item ends in
\* succeeded or failed, for every K and every N >= 1.
C11_EachItemOnce ==
  /\ \A j \in Items : calls[j] <= 1
  /\ (ValidRun /\ Ended) =>
       \A j \in Items : calls[j] = 1 /\ st[j] \in {"succeeded", "failed"}

\* Items whose worker invocation has not returned yet.
Unfinished(s) == {j \in DOMAIN s : s[j] \notin FinalStates}

\* C12: the batch cannot deadlock: with fair scheduling and returning
\* workers the run eventually ends for every K and N, it ends in its complete
\* state when no invocation raised, and the number of items not yet finished
\* never increases.
C12_NoDeadlock ==
  /\ <>Ended
  /\ [](Ended /\ ValidRun /\ (\A j \in Items : st[j] # "raised")
          => mainpc = "done" /\ Unfinished(st) = {})
  /\ [][Cardinality(Unfinished(st))' <= Cardinality(Unfinished(st))]_vars

C12_Witness ==
  /\ mainpc = "done"
  /\ n_items >= 3
  /\ n_items > max_threads
  /\ num_threads = max_threads

\* l is an initial part of m.
IsPrefix(l, m) == Len(l) <= Len(m) /\ SubSeq(m, 1, Len(l)) = l

\* Items whose worker has caught its exception (the except clause is entered
\* or done).
Failing(s) == {j \in DOMAIN s : s[j] \in {"log", "failed"}}

\* C13: the failure log is append-only and failure-driven: it has no entry
\* while no item has failed, it stays absent in a run in which every item
\* succeeds, and every step leaves the previous log as an initial part of
\* the new one.
C13_AppendOnlyLog ==
  /\ [](Failing(st) = {} => error_log = <<>>)
  /\ [](Ended /\ (\A j \in Items : st[j] = "succeeded") => error_log = <<>>)
  /\ [][IsPrefix(error_log, error_log')]_vars

C13_Witness ==
  /\ Len(error_log) >= 2
  /\ error_log[1] > error_log[2]
  /\ \E j \in Items : st[j] = "succeeded"
  /\ mainpc = "done"

\* The run is on a startup-error path: the input cannot be read or the
\* thread count is invalid.
StartupError == ~input_ok \/ max_threads <= 0

\* C14: a startup error (unreadable input folder / URL file, invalid thread
\* count) aborts the run before any work starts: on that path no worker is
\* invoked, no output folder is created and no log entry is written.
C14_StartupErrorNoEffect ==
  [][StartupError =>
       /\ folder' = folder
       /\ error_log' = error_log
       /\ \A j \in Items : calls'[j] = 0]_vars

\* C15: the progress counter has a single writer: only the calling thread's
\* loop over the results changes completed, by exactly one and together with
\* its report, never a step of a worker; so no increment is lost (the count
\* is the number of results consumed) and no report shows a stale value.
C15_SingleWriter ==
  /\ [](mainpc = "iter" => completed = idx - 1)
  /\ [](Len(reports) = completed)
  /\ [][completed' # completed =>
          /\ mainpc = "iter"
          /\ completed' = completed + 1
          /\ reports' = Append(reports, completed')
          /\ st' = st
          /\ calls' = calls
          /\ error_log' = error_log]_vars

C15_Witness ==
  /\ mainpc = "iter"
  /\ completed >= 2
  /\ Cardinality(Running(st)) >= 2

\* Exceptions the workers catch and log.
Caught == {"CalledProcessError", "RequestException"}

\* C16: the failure log is written incrementally: in every reachable state
\* each item that failed with a caught exception and is already counted in
\* completed has its entry in the log; the append precedes the count.
C16_LoggedBeforeCounted ==
  \A j \in Items :
    (j <= completed /\ exc[j] \in Caught) => CountIn(error_log, j) = 1

C16_Witness ==
  /\ mainpc = "iter"
  /\ completed >= 1
  /\ exc[1] \in Caught
  /\ Running(st) # {}
  /\ Pending(st) # {}

\* C17: progress is counted in input order: with completed = k the first k
\* items have all returned, so completed never exceeds the number of
\* finished invocations and stays behind it while an earlier item is still
\* running although later items have finished.
C17_CountedInInputOrder ==
  /\ \A j \in Items : j <= completed => st[j] \in {"succeeded", "failed"}
  /\ completed <= Cardinality(Finished(st))

C17_Witness ==
  /\ mainpc = "iter"
  /\ \E i, j \in Items :
       /\ i < j
       /\ st[i] \in RunningStates
       /\ st[j] \in FinalStates
       /\ completed = i - 1
       /\ completed < Cardinality(Finished(st))

\* The worker of item j is writing its destination file.
Writing(j) == st[j] \in {"cwebp", "save"}

\* C18: distinct input items (image paths that differ only in extension, URLs
\* that differ only before the last path segment) always map to distinct
\* destination paths, so two concurrently running workers never write to one
\* output file.
C18_DistinctDestinations ==
  \A i, j \in Items :
    (i # j /\ names[i] # names[j] /\ Writing(i) /\ Writing(j))
      => Dest(script, names[i]) # Dest(script, names[j])

\* C18 as amended: two items map to the same destination path exactly when
\* their base names without extension (converter) or their last URL path
\* segments (downloader) are equal; only items that differ there get
\* distinct destinations.
C18_SameDestinationIffSameKey ==
  \A i, j \in Items :
    (Dest(script, names[i]) = Dest(script, names[j]))
      <=> (DestKey(script, names[i]) = DestKey(script, names[j]))

C18_Witness ==
  /\ names[1] # names[2]
  /\ Writing(1) /\ Writing(2)
  /\ DestKey(script, names[1]) = DestKey(script, names[2])
  /\ Dest(script, names[1]) = Dest(script, names[2])
====
